---- MODULE Spec2Model ----
(***************************************************************************)
(* Model of ntfs_ext4.py: the ForensicCopyGUI session state machine (UI    *)
(* thread handlers, the _run_copy worker thread, the shared                *)
(* ThreadSafeState, the AuditLogger) and the _scan_source inventory.       *)
(*                                                                         *)
(* File and directory names are sequences of one-character strings, so     *)
(* that name matching (exact membership, trailing-wildcard glob) and       *)
(* str.startswith are computed character by character.                     *)
(***************************************************************************)
EXTENDS Integers, Sequences, FiniteSets, TLC

----------------------------------------------------------------------------
(* Bounds of the model *)

\* output lines one rsync invocation produces before it closes its stdout
MaxLines == 2
\* clicks on the CANCEL button within one session
MaxCancelClicks == 1
\* thread slots: worker threads that can exist side by side in the model
MaxWorkers == 2

(* Program constants *)

RETRY_ATTEMPTS == 3
RETRY_DELAY_SECONDS == 2
\* size/(1024**3) > 0.1  <=>  size > 107374182 for integer byte counts
ConfirmThresholdBytes == 107374182
\* len(data['samples']) < 10
SampleCap == 10
\* sz > 1024
SampleMinBytes == 1024

----------------------------------------------------------------------------
(* Names and the exclusion list *)

NTFS_EXCLUSIONS ==
    << <<".", "T", "r", "a", "s", "h", "e", "s">>,
       <<"$", "R", "E", "C", "Y", "C", "L", "E", ".", "B", "I", "N">>,
       <<"S", "y", "s", "t", "e", "m", " ", "V", "o", "l", "u", "m", "e", " ", "I", "n", "f", "o", "r", "m", "a", "t", "i", "o", "n">>,
       <<"d", "e", "s", "k", "t", "o", "p", ".", "i", "n", "i">>,
       <<"T", "h", "u", "m", "b", "s", ".", "d", "b">>,
       <<"T", "h", "u", "m", "b", "s", ".", "d", "b", ":", "e", "n", "c", "r", "y", "p", "t", "a", "b", "l", "e">>,
       <<"e", "h", "t", "h", "u", "m", "b", "s", ".", "d", "b">>,
       <<"e", "h", "t", "h", "u", "m", "b", "s", "_", "v", "i", "s", "t", "a", ".", "d", "b">>,
       <<"@", "e", "a", "D", "i", "r">>,
       <<".", "S", "p", "o", "t", "l", "i", "g", "h", "t", "-", "V", "1", "0", "0">>,
       <<".", "D", "S", "_", "S", "t", "o", "r", "e">>,
       <<"f", "u", "s", "e", "_", "h", "i", "d", "d", "e", "n", "*">>,
       <<".", "n", "f", "s", "*">> >>

\* EXCLUSION_SET = set(NTFS_EXCLUSIONS)
EXCLUSION_SET == { NTFS_EXCLUSIONS[i] : i \in 1..Len(NTFS_EXCLUSIONS) }

\* `name in EXCLUSION_SET`: the literal strings of the list, "fuse_hidden*"
\* and ".nfs*" included as literal names
InExclusionSet(name) == name \in EXCLUSION_SET

\* str.startswith
StartsWith(name, prefix) ==
    /\ Len(name) >= Len(prefix)
    /\ SubSeq(name, 1, Len(prefix)) = prefix

\* name.startswith('.')
IsDotName(name) == StartsWith(name, <<".">>)

\* One rsync exclude pattern against one path component.  The patterns of
\* the list hold no '/', '?' or '[', and '*' only as the last character, so a
\* pattern ending in '*' matches every name that starts with what precedes
\* the '*', and any other pattern matches the equal name only.
RsyncPatternMatches(pat, name) ==
    IF Len(pat) > 0 /\ pat[Len(pat)] = "*"
    THEN StartsWith(name, SubSeq(pat, 1, Len(pat) - 1))
    ELSE name = pat

\* rsync --exclude-from=- fed "\n".join(NTFS_EXCLUSIONS): a name is left out
\* of the transfer when some pattern matches it
RsyncExcludes(name) ==
    \E i \in 1..Len(NTFS_EXCLUSIONS) : RsyncPatternMatches(NTFS_EXCLUSIONS[i], name)

\* str.lower on one character
LowerChar(c) ==
    CASE c = "A" -> "a" [] c = "B" -> "b" [] c = "C" -> "c" [] c = "D" -> "d"
      [] c = "E" -> "e" [] c = "F" -> "f" [] c = "G" -> "g" [] c = "H" -> "h"
      [] c = "I" -> "i" [] c = "J" -> "j" [] c = "K" -> "k" [] c = "L" -> "l"
      [] c = "M" -> "m" [] c = "N" -> "n" [] c = "O" -> "o" [] c = "P" -> "p"
      [] c = "Q" -> "q" [] c = "R" -> "r" [] c = "S" -> "s" [] c = "T" -> "t"
      [] c = "U" -> "u" [] c = "V" -> "v" [] c = "W" -> "w" [] c = "X" -> "x"
      [] c = "Y" -> "y" [] c = "Z" -> "z" [] OTHER -> c

\* f.lower()
Lower(name) == [i \in 1..Len(name) |-> LowerChar(name[i])]

Range(seq) == { seq[i] : i \in 1..Len(seq) }

----------------------------------------------------------------------------
(* Source trees.  A tree is the root directory's files and subdirectories  *)
(* in os.walk order; a subdirectory holds files.  A file is its name, its  *)
(* size in bytes and whether os.path.getsize succeeds on it.               *)

File(n, sz) == [name |-> n, size |-> sz, stat |-> TRUE]
NoStat(n) == [name |-> n, size |-> 0, stat |-> FALSE]
Dir(n, fs) == [name |-> n, files |-> fs]
Tree(fs, ds) == [files |-> fs, subdirs |-> ds]

N_a_txt == <<"a", ".", "t", "x", "t">>
N_hidden == <<".", "h", "i", "d", "d", "e", "n">>
N_Thumbs_db == <<"T", "h", "u", "m", "b", "s", ".", "d", "b">>
N_sub == <<"s", "u", "b">>
N_b_txt == <<"b", ".", "t", "x", "t">>
N_big_bin == <<"b", "i", "g", ".", "b", "i", "n">>
N_nfs01 == <<".", "n", "f", "s", "0", "1">>
N_fuse_hidden7 == <<"f", "u", "s", "e", "_", "h", "i", "d", "d", "e", "n", "7">>
N_eaDir == <<"@", "e", "a", "D", "i", "r">>
N_git == <<".", "g", "i", "t">>
N_Report_txt == <<"R", "e", "p", "o", "r", "t", ".", "t", "x", "t">>
N_report_txt == <<"r", "e", "p", "o", "r", "t", ".", "t", "x", "t">>
N_x_dat == <<"x", ".", "d", "a", "t">>

EmptyTree == Tree(<< >>, << >>)

\* a.txt (2000), .hidden (10), Thumbs.db (500), sub/b.txt (3000)
SmallTree ==
    Tree(<< File(N_a_txt, 2000), File(N_hidden, 10), File(N_Thumbs_db, 500) >>,
         << Dir(N_sub, << File(N_b_txt, 3000) >>) >>)

\* above the confirmation threshold, with names only a wildcard pattern
\* excludes, an excluded directory and a hidden directory
BigTree ==
    Tree(<< File(N_big_bin, 200000000), File(N_nfs01, 10), NoStat(N_x_dat) >>,
         << Dir(N_eaDir, << File(N_a_txt, 2000) >>),
            Dir(N_git, << File(N_fuse_hidden7, 10) >>) >>)

\* the source trees a session may find at the source path
Trees == { SmallTree, BigTree }

----------------------------------------------------------------------------
(* _scan_source *)

ScanData0 ==
    [files |-> 0, dirs |-> 0, size |-> 0, hidden_files |-> << >>,
     hidden_dirs |-> << >>, conflicts |-> << >>, samples |-> << >>,
     errors |-> << >>]

\* relpath of an entry: <<name>> in the root, <<dir, name>> below it
Rel(dirpath, name) == Append(dirpath, name)

Mut_StatFailure(data, rel) == data

\* except Exception: data['errors'].append("Size error <rel>: ..."), no
\* more; the loop body goes on after the try statement
StatFailure(data, rel) == [data EXCEPT !.errors = Append(@, rel)]

\* body of `for f in files` for one file of directory dirpath
ScanFile(data, dirpath, f) ==
    IF InExclusionSet(f.name) THEN data
    ELSE
      LET rel == Rel(dirpath, f.name)
          d1 == [data EXCEPT !.files = @ + 1]
          d2 == IF IsDotName(f.name) /\ ~InExclusionSet(f.name)
                THEN [d1 EXCEPT !.hidden_files = Append(@, rel)] ELSE d1
          d3 == IF f.stat
                THEN LET d3a == [d2 EXCEPT !.size = @ + f.size]
                     IN IF Len(d3a.samples) < SampleCap /\ f.size > SampleMinBytes
                        THEN [d3a EXCEPT !.samples = Append(@, <<rel, f.size>>)]
                        ELSE d3a
                ELSE StatFailure(d2, rel)
      IN  \* data['conflicts'][f.lower()].append(f), kept as (key, name) pairs
          [d3 EXCEPT !.conflicts = Append(@, <<Lower(f.name), f.name>>)]

RECURSIVE ScanFiles(_, _, _)
ScanFiles(data, dirpath, files) ==
    IF files = << >> THEN data
    ELSE ScanFiles(ScanFile(data, dirpath, Head(files)), dirpath, Tail(files))

\* dirs[:] = [d for d in dirs if d not in EXCLUSION_SET]
PruneDirs(dirs) == SelectSeq(dirs, LAMBDA d : ~InExclusionSet(d.name))

\* body of `for d in dirs` for one directory of the root
ScanDirEntry(data, d) ==
    LET d1 == [data EXCEPT !.dirs = @ + 1]
    IN IF IsDotName(d.name) /\ ~InExclusionSet(d.name)
       THEN [d1 EXCEPT !.hidden_dirs = Append(@, <<d.name>>)] ELSE d1

RECURSIVE ScanDirEntries(_, _)
ScanDirEntries(data, dirs) ==
    IF dirs = << >> THEN data
    ELSE ScanDirEntries(ScanDirEntry(data, Head(dirs)), Tail(dirs))

\* the os.walk iterations of the subdirectories that were not pruned
RECURSIVE ScanSubdirs(_, _)
ScanSubdirs(data, dirs) ==
    IF dirs = << >> THEN data
    ELSE ScanSubdirs(ScanFiles(data, <<Head(dirs).name>>, Head(dirs).files), Tail(dirs))

\* the names recorded under one case-folded key
ConflictNames(pairs, key) == { pairs[i][2] : i \in { j \in 1..Len(pairs) : pairs[j][1] = key } }

\* {k:v for k,v in conflicts.items() if len(set(v))>1}: the keys kept
ConflictKeys(pairs) ==
    { k \in { pairs[i][1] : i \in 1..Len(pairs) } : Cardinality(ConflictNames(pairs, k)) > 1 }

\* the whole walk: the root's directories, the root's files, then each
\* remaining subdirectory; conflicts is reduced to its colliding keys
ScanSource(tree) ==
    LET kept == PruneDirs(tree.subdirs)
        a == ScanDirEntries(ScanData0, kept)
        b == ScanFiles(a, << >>, tree.files)
        c == ScanSubdirs(b, kept)
    IN [c EXCEPT !.conflicts = SelectSeq(c.conflicts, LAMBDA p : p[1] \in ConflictKeys(c.conflicts))]

\* len(data['conflicts']) after the filter
NumConflicts(data) == Cardinality({ data.conflicts[i][1] : i \in 1..Len(data.conflicts) })

----------------------------------------------------------------------------
(* The transfer's effect on the destination: rsync copies every entry no   *)
(* exclude pattern matches.                                                *)

TransferFiles(files) == SelectSeq(files, LAMBDA f : ~RsyncExcludes(f.name))

TransferDirs(dirs) ==
    LET kept == SelectSeq(dirs, LAMBDA d : ~RsyncExcludes(d.name))
    IN [i \in 1..Len(kept) |-> Dir(kept[i].name, TransferFiles(kept[i].files))]

Transferred(tree) == Tree(TransferFiles(tree.files), TransferDirs(tree.subdirs))

\* hidden count of the verification walk over the destination
DestHiddenInFiles(files) ==
    Cardinality({ i \in 1..Len(files) :
                    IsDotName(files[i].name) /\ ~InExclusionSet(files[i].name) })

RECURSIVE DestHiddenInDirs(_)
DestHiddenInDirs(dirs) ==
    IF dirs = << >> THEN 0
    ELSE DestHiddenInFiles(Head(dirs).files) + DestHiddenInDirs(Tail(dirs))

VerifyHiddenCount(tree) ==
    DestHiddenInFiles(tree.files) + DestHiddenInDirs(PruneDirs(tree.subdirs))

----------------------------------------------------------------------------
(* State *)

VARIABLES
    state,       \* ThreadSafeState._state
    logger,      \* AuditLogger: log_file, and the entries and file lines
                 \* appended since the latest start request passed its guard
                 \* (older lines are never read nor changed by the program)
    ui,          \* the UI thread: modal-dialog/handler stack, widgets, status,
                 \* and the error list the open error dialog shows
    scan_cache,  \* self.scan_cache
    srcTree,     \* the tree at the source path when it was scanned
    dstTree,     \* what the latest completed rsync run left at the destination
    dstCreated,  \* os.makedirs(dst) has succeeded
    afterQueue,  \* callbacks scheduled with root.after(0, ...) and not yet run
    w,           \* the worker threads, by thread slot
    sess         \* what the current session has done so far (observation only)

vars == <<state, logger, ui, scan_cache, srcTree, dstTree, dstCreated, afterQueue, w, sess>>

Slots == 1..MaxWorkers

\* ThreadSafeState.__init__
InitialState ==
    [copy_in_progress |-> FALSE, copy_completed |-> FALSE, copy_failed |-> FALSE,
     cancel_requested |-> FALSE, current_phase |-> "idle", files_processed |-> 0,
     bytes_transferred |-> 0, errors |-> << >>, warnings |-> << >>,
     checkpoints |-> << >>]

\* ThreadSafeState.reset: False for a bool, 0 for an int, [] for anything
\* else; current_phase is a str, so it becomes [], written "[]" here
ResetState(st) ==
    [copy_in_progress |-> FALSE, copy_completed |-> FALSE, copy_failed |-> FALSE,
     cancel_requested |-> FALSE, current_phase |-> "[]", files_processed |-> 0,
     bytes_transferred |-> 0, errors |-> << >>, warnings |-> << >>,
     checkpoints |-> << >>]

\* one audit entry: severity, message kind, a number and a detail of the message
Entry(level, tag, n, detail) == <<level, tag, n, detail>>
Info(tag, n) == Entry("info", tag, n, "")

\* AuditLogger.log: append to entries; write to the file when log_file is
\* set, a write to a closed file raising and being swallowed
Log(lg, e) ==
    [lg EXCEPT !.entries = Append(@, e),
               !.file = IF lg.log_file = "open" THEN Append(@, e) ELSE @]

RECURSIVE LogAll(_, _)
LogAll(lg, es) == IF es = << >> THEN lg ELSE LogAll(Log(lg, Head(es)), Tail(es))

\* AuditLogger.close
CloseLog(lg) == [lg EXCEPT !.log_file = IF @ = "none" THEN "none" ELSE "closed"]

\* the lines _log_startup writes before and after init_file_log
StartupHead == << Info("banner", 0), Info("session", 0), Info("app", 0),
                  Info("python", 0), Info("user", 0) >>
StartupTail(opened) ==
    (IF opened THEN << Info("log_file", 0) >> ELSE << >>)
        \o << Info("banner", 0), Info("ready", 0) >>

\* no path check is on record
NoEnv ==
    [srcEmpty |-> FALSE, dstEmpty |-> FALSE, srcAbs |-> TRUE, dstAbs |-> TRUE,
     srcIsDir |-> TRUE, srcReadable |-> TRUE, parentIsDir |-> TRUE,
     dstExists |-> FALSE, dstWritable |-> FALSE, minFree |-> TRUE]

\* a thread slot no thread occupies
IdleWorker ==
    [pc |-> "none", attempt |-> 0, success |-> FALSE, exc |-> <<"", 0>>,
     lines |-> 0, terminated |-> FALSE, scan_data |-> ScanData0,
     makedirs |-> 0, popens |-> 0, delays |-> 0, fails |-> 0, rsyncFails |-> 0,
     rsyncOK |-> FALSE, chmodOK |-> FALSE, verifies |-> 0,
     cancelInFlight |-> FALSE, cancelSeen |-> FALSE, outcome |-> "none"]

\* _run_copy entered with scan_data: attempt = 0, success = False
NewWorker(data) == [IdleWorker EXCEPT !.pc = "loop", !.scan_data = data]

NewSession ==
    [cancelClicks |-> 0, env |-> NoEnv, dstBefore |-> FALSE,
     validationErrors |-> << >>, scanned |-> FALSE,
     confirmAsked |-> FALSE, confirm |-> "none", preflight |-> "none",
     launched |-> FALSE]

Init ==
    /\ state = InitialState
    /\ \E opened \in BOOLEAN :
          logger = [log_file |-> IF opened THEN "open" ELSE "none",
                    entries |-> StartupHead \o StartupTail(opened),
                    file |-> IF opened THEN StartupTail(opened) ELSE << >>]
    /\ ui = [stack |-> << >>, destroyed |-> FALSE, btn |-> TRUE,
             btn_cancel |-> FALSE, status |-> "Ready", dialogBody |-> << >>]
    /\ scan_cache = ScanData0
    /\ srcTree = EmptyTree
    /\ dstTree = EmptyTree
    /\ dstCreated = FALSE
    /\ afterQueue = << >>
    /\ w = [s \in Slots |-> IdleWorker]
    /\ sess = NewSession

----------------------------------------------------------------------------
(* The UI thread.  ui.stack holds the handlers that are waiting inside a   *)
(* modal dialog (whose nested event loop still runs root.after callbacks)  *)
(* or are running and block the event loop; the empty stack is the idle    *)
(* main loop.                                                              *)

Top(stack) == stack[Len(stack)]
Pop(stack) == SubSeq(stack, 1, Len(stack) - 1)
Push(stack, f) == Append(stack, f)
SetTop(stack, f) == Append(Pop(stack), f)

Dialogs == {"validation", "confirm", "lowspace", "finish_ok", "finish_fail", "close"}

\* the event loop is running: the main loop or a dialog's nested loop
InEventLoop ==
    ~ui.destroyed /\ (IF ui.stack = << >> THEN TRUE ELSE Top(ui.stack) \in Dialogs)
\* the main window takes clicks: no dialog holds the grab, no handler runs
MainWindowIdle == ~ui.destroyed /\ ui.stack = << >>

\* what the environment answers to the path checks of _validate_paths
PathEnvs ==
    { e \in [srcEmpty : BOOLEAN, dstEmpty : BOOLEAN, srcAbs : BOOLEAN,
             dstAbs : BOOLEAN, srcIsDir : BOOLEAN, srcReadable : BOOLEAN,
             parentIsDir : BOOLEAN, dstExists : BOOLEAN, dstWritable : BOOLEAN,
             minFree : BOOLEAN] :
        /\ e.srcEmpty => ~e.srcAbs /\ ~e.srcIsDir /\ ~e.srcReadable
        /\ e.dstEmpty => ~e.dstAbs /\ ~e.parentIsDir /\ ~e.dstExists
        /\ e.srcIsDir => ~e.srcEmpty
        /\ e.dstWritable => e.dstExists }

Cond(b, x) == IF b THEN << x >> ELSE << >>

\* every violated rule, in the order of the checks
AllValidationErrors(e) ==
    Cond(e.srcEmpty \/ e.dstEmpty, "paths_empty")
    \o Cond(~e.srcAbs \/ ~e.dstAbs, "not_absolute")
    \o Cond(~e.srcIsDir, "source_not_found")
    \o Cond(~e.srcReadable, "no_read_access")
    \o Cond(~e.parentIsDir, "dest_parent_invalid")
    \o Cond(e.dstExists /\ ~e.dstWritable, "no_write_access")

Mut_ValidationErrors(e) ==
    IF AllValidationErrors(e) = << >> THEN << >> ELSE << Head(AllValidationErrors(e)) >>

\* _validate_paths: the errors it returns
ValidationErrors(e) == AllValidationErrors(e)

\* _validate_paths: the free-space warning
ValidationWarnings(e) == Cond(~e.minFree, "low_free_space")

Mut_ErrorEntries(errs) == << >>

\* the audit line of each validation error
ErrorEntries(errs) == [i \in 1..Len(errs) |-> Entry("error", "validation", i, errs[i])]
WarningEntries(ws) == [i \in 1..Len(ws) |-> Entry("warning", "validation", i, ws[i])]

\* the audit lines of _scan_source
ScanEntries(data) ==
    << Info("scanning", 0), Info("scan_summary", data.files) >>
    \o Cond(data.hidden_files # << >>, Info("scan_hidden", Len(data.hidden_files)))
    \o Cond(data.conflicts # << >>, Info("scan_conflicts", NumConflicts(data)))
    \o Cond(data.errors # << >>, Entry("warning", "scan_errors", Len(data.errors), ""))

\* the audit lines _confirm_copy writes before it decides whether to ask
ConfirmEntries(data) ==
    << Info("confirm_banner", 0), Info("confirm_required", 0), Info("confirm_source", 0),
       Info("confirm_dest", 0), Info("confirm_files", data.files),
       Info("confirm_hidden", Len(data.hidden_files)) >>

\* size_gb > 0.1
NeedsConfirmation(data) == data.size > ConfirmThresholdBytes

\* the lowest free thread slot
FreeSlots == { s \in Slots : w[s].pc \in {"none", "done", "crashed"} }
FreeSlot == CHOOSE s \in FreeSlots : \A t \in FreeSlots : s <= t

Mut_LaunchHidesStart == FALSE

\* self.btn.grid_remove() of the launch: the Start button is mapped no more
LaunchHidesStart == TRUE

\* _start_copy from "STAGE 5: LAUNCHING COPY" to its end: the thread is
\* started and "Copy thread launched" is logged before the handler returns
Launch(u, lg, ss, data) ==
    /\ FreeSlots # {}
    /\ state' = [state EXCEPT !.copy_in_progress = TRUE, !.current_phase = "copying"]
    /\ logger' = LogAll(lg, << Info("stage5_launching", 0), Info("thread_launched", 0) >>)
    /\ ui' = [u EXCEPT !.stack = Pop(@),
                        !.btn = IF LaunchHidesStart THEN FALSE ELSE @,
                        !.btn_cancel = TRUE, !.status = "Copying"]
    /\ w' = [w EXCEPT ![FreeSlot] = NewWorker(data)]
    /\ sess' = [ss EXCEPT !.launched = TRUE]

\* _start_copy, stage 4: the free-space check and its LOW SPACE dialog
PreflightFrom(u, lg0, ss, data) ==
    LET lg == Log(lg0, Info("stage4_precopy", 0))
    IN \E ok \in BOOLEAN :
        IF ok
        THEN Launch(u, lg, [ss EXCEPT !.preflight = "ok"], data)
        ELSE /\ logger' = Log(lg, Entry("error", "low_space", 0, ""))
             /\ ui' = [u EXCEPT !.stack = SetTop(@, "lowspace")]
             /\ sess' = [ss EXCEPT !.preflight = "asked"]
             /\ UNCHANGED <<state, w>>

\* a click on Start Copy: the guard of _start_copy, and with no copy in
\* progress the reading of the two paths and the "STAGE 1" audit line.
\* logger.entries and logger.file hold the lines written since the latest
\* start; the program keeps the earlier lines too and never reads them
StartCopy ==
    /\ MainWindowIdle
    /\ ui.btn
    /\ UNCHANGED <<state, scan_cache, srcTree, dstTree, dstCreated, afterQueue, w>>
    /\ IF state.copy_in_progress
       THEN /\ logger' = Log(logger, Entry("warning", "already_running", 0, ""))
            /\ UNCHANGED <<ui, sess>>
       ELSE /\ logger' = Log([logger EXCEPT !.entries = << >>, !.file = << >>],
                             Info("stage1_validation", 0))
            /\ ui' = [ui EXCEPT !.stack = Push(@, "start")]
            /\ sess' = [NewSession EXCEPT !.dstBefore = dstCreated]

\* _start_copy from _validate_paths on: stage 1 (validate), stage 2 (scan),
\* stage 3 up to the CONFIRM dialog, and on through stages 4 and 5 when
\* nothing is asked
StartStages ==
    /\ ~ui.destroyed /\ ui.stack # << >> /\ Top(ui.stack) = "start"
    /\ UNCHANGED <<dstTree, dstCreated, afterQueue>>
    /\ \E env \in PathEnvs :
        LET errs == ValidationErrors(env)
            lg1 == LogAll(logger, WarningEntries(ValidationWarnings(env)))
        IN IF errs # << >>
           THEN /\ logger' = LogAll(lg1, ErrorEntries(errs))
                /\ ui' = [ui EXCEPT !.stack = SetTop(@, "validation"),
                                    !.dialogBody = errs]
                /\ sess' = [sess EXCEPT !.validationErrors = errs, !.env = env]
                /\ UNCHANGED <<state, scan_cache, srcTree, w>>
           ELSE \E tree \in Trees :
                LET data == ScanSource(tree)
                    lg2 == LogAll(Log(lg1, Info("stage2_scan", 0)), ScanEntries(data))
                    lg3 == LogAll(Log(lg2, Info("stage3_confirmation", 0)),
                                  ConfirmEntries(data))
                    ss == [sess EXCEPT !.scanned = TRUE]
                    ui1 == [ui EXCEPT !.status = "Confirm"]
                IN /\ srcTree' = tree
                   /\ scan_cache' = data
                   /\ IF NeedsConfirmation(data)
                      THEN /\ logger' = lg3
                           /\ ui' = [ui1 EXCEPT !.stack = SetTop(@, "confirm")]
                           /\ sess' = [ss EXCEPT !.confirmAsked = TRUE]
                           /\ UNCHANGED <<state, w>>
                      ELSE PreflightFrom(ui1, lg3, [ss EXCEPT !.confirm = "not_needed"], data)

\* messagebox.showerror("VALIDATION FAILED", ...) returns; _start_copy returns
ValidationDismiss ==
    /\ ~ui.destroyed /\ ui.stack # << >> /\ Top(ui.stack) = "validation"
    /\ ui' = [ui EXCEPT !.stack = Pop(@), !.dialogBody = << >>]
    /\ sess' = [sess EXCEPT !.env = NoEnv]
    /\ UNCHANGED <<state, logger, scan_cache, srcTree, dstTree, dstCreated, afterQueue, w>>

Mut_CountdownEntries == << >>

\* the countdown of _confirm_copy when the dialog raises
CountdownEntries ==
    << Entry("warning", "dialog_failed", 0, ""), Info("auto_proceeding", 5),
       Info("countdown", 5), Info("countdown", 4), Info("countdown", 3),
       Info("countdown", 2), Info("countdown", 1) >>

Mut_ConfirmResult(ans) == TRUE

\* what _confirm_copy returns: the operator's answer, or True after the
\* countdown when the dialog raised
ConfirmResult(ans) == ans # "no"

\* what the session records of the confirmation
ConfirmOutcome(ans) == IF ans = "raises" THEN "raised" ELSE ans

\* messagebox.askyesno("CONFIRM", ...) answers or raises; _start_copy goes on
ConfirmAnswer ==
    /\ ~ui.destroyed /\ ui.stack # << >> /\ Top(ui.stack) = "confirm"
    /\ UNCHANGED <<scan_cache, srcTree, dstTree, dstCreated, afterQueue>>
    /\ \E ans \in {"yes", "no", "raises"} :
        LET lg == IF ans = "raises" THEN LogAll(logger, CountdownEntries) ELSE logger
            ss == [sess EXCEPT !.confirm = ConfirmOutcome(ans)]
        IN IF ~ConfirmResult(ans)
           THEN /\ logger' = Log(lg, Info("cancelled_by_user", 0))
                /\ ui' = [ui EXCEPT !.stack = Pop(@), !.status = "Cancelled"]
                /\ sess' = ss
                /\ UNCHANGED <<state, w>>
           ELSE PreflightFrom(ui, lg, ss, scan_cache)

\* messagebox.askyesno("LOW SPACE", ...) answers; _start_copy goes on
LowSpaceAnswer ==
    /\ ~ui.destroyed /\ ui.stack # << >> /\ Top(ui.stack) = "lowspace"
    /\ UNCHANGED <<scan_cache, srcTree, dstTree, dstCreated, afterQueue>>
    /\ \E yes \in BOOLEAN :
        IF yes
        THEN Launch(ui, logger, [sess EXCEPT !.preflight = "override"], scan_cache)
        ELSE /\ ui' = [ui EXCEPT !.stack = Pop(@)]
             /\ sess' = [sess EXCEPT !.preflight = "refused"]
             /\ UNCHANGED <<state, logger, w>>

\* the threads whose rsync subprocess is started and not yet reaped
InFlight(s) == w[s].pc \in {"stream", "wait"}

\* _cancel_copy
CancelEffects(lg) ==
    /\ logger' = Log(lg, Info("cancel_requested", 0))
    /\ state' = [state EXCEPT !.cancel_requested = TRUE]
    /\ w' = [s \in Slots |-> IF InFlight(s) THEN [w[s] EXCEPT !.cancelInFlight = TRUE]
                                             ELSE w[s]]

\* a click on CANCEL
CancelCopy ==
    /\ MainWindowIdle
    /\ ui.btn_cancel
    /\ sess.cancelClicks < MaxCancelClicks
    /\ CancelEffects(logger)
    /\ ui' = [ui EXCEPT !.status = "Cancelling"]
    /\ sess' = [sess EXCEPT !.cancelClicks = @ + 1]
    /\ UNCHANGED <<scan_cache, srcTree, dstTree, dstCreated, afterQueue>>

\* _finish(success, info) up to its messagebox, run from the event loop
Finish ==
    /\ InEventLoop
    /\ afterQueue # << >>
    /\ LET success == Head(afterQueue)
       IN /\ afterQueue' = Tail(afterQueue)
          /\ state' = ResetState(state)
          /\ logger' = IF success
                       THEN LogAll(logger, << Info("banner", 0), Info("copy_complete", 0),
                                              Info("destination", 0), Info("banner", 0) >>)
                       ELSE LogAll(logger, << Info("banner", 0),
                                              Entry("error", "copy_failed", 0, "all_retries_failed"),
                                              Info("banner", 0) >>)
          /\ ui' = [ui EXCEPT !.btn_cancel = FALSE, !.btn = TRUE,
                              !.status = IF success THEN "Complete" ELSE "Failed",
                              !.dialogBody = IF success THEN << >> ELSE << "all_retries_failed" >>,
                              !.stack = Push(@, IF success THEN "finish_ok" ELSE "finish_fail")]
    /\ UNCHANGED <<scan_cache, srcTree, dstTree, dstCreated, w, sess>>

\* the messagebox of _finish returns; self.logger.close()
FinishDismiss ==
    /\ ~ui.destroyed /\ ui.stack # << >> /\ Top(ui.stack) \in {"finish_ok", "finish_fail"}
    /\ logger' = CloseLog(logger)
    /\ ui' = [ui EXCEPT !.stack = Pop(@), !.dialogBody = << >>]
    /\ UNCHANGED <<state, scan_cache, srcTree, dstTree, dstCreated, afterQueue, w, sess>>

Mut_CloseAsks == FALSE

\* `if self.state.get('copy_in_progress'):` of _on_close
CloseAsks == state.copy_in_progress

\* _on_close: the window is closed from the idle main loop
OnClose ==
    /\ MainWindowIdle
    /\ IF CloseAsks
       THEN /\ ui' = [ui EXCEPT !.stack = Push(@, "close")]
            /\ UNCHANGED logger
       ELSE /\ logger' = CloseLog(logger)
            /\ ui' = [ui EXCEPT !.destroyed = TRUE]
    /\ UNCHANGED <<state, scan_cache, srcTree, dstTree, dstCreated, afterQueue, w, sess>>

\* messagebox.askyesno("In Progress", ...) answers: return, or _cancel_copy
\* and time.sleep(2)
CloseAnswer ==
    /\ ~ui.destroyed /\ ui.stack # << >> /\ Top(ui.stack) = "close"
    /\ UNCHANGED <<scan_cache, srcTree, dstTree, dstCreated, afterQueue, sess>>
    /\ \E yes \in BOOLEAN :
        IF yes
        THEN /\ CancelEffects(logger)
             /\ ui' = [ui EXCEPT !.stack = SetTop(@, "close_sleep"), !.status = "Cancelling"]
        ELSE /\ ui' = [ui EXCEPT !.stack = Pop(@)]
             /\ UNCHANGED <<state, logger, w>>

\* _on_close after the sleep: self.logger.close(); self.root.destroy()
CloseTeardown ==
    /\ ~ui.destroyed /\ ui.stack # << >> /\ Top(ui.stack) = "close_sleep"
    /\ logger' = CloseLog(logger)
    /\ ui' = [ui EXCEPT !.destroyed = TRUE, !.stack = << >>]
    /\ UNCHANGED <<state, scan_cache, srcTree, dstTree, dstCreated, afterQueue, w, sess>>

----------------------------------------------------------------------------
(* The worker thread: _run_copy, one action per blocking step *)

\* exit statuses of an rsync run that was left alone, and of one that
\* proc.terminate() reached (0 when it had already exited)
ExitCodes == {0, 23}
ExitCodesTerminated == {0, 20}

\* what probing one sample at the destination finds: the file with the
\* expected size, with another size, no file, or getsize raising
ProbeOutcomes == {"ok", "mismatch", "missing", "error"}

Raise(rec, kind, code) == [rec EXCEPT !.pc = "except", !.exc = <<kind, code>>]

Mut_LoopGoesOn(rec) == rec.attempt < RETRY_ATTEMPTS

\* the loop condition `attempt < RETRY_ATTEMPTS and not success`
LoopGoesOn(rec) == rec.attempt < RETRY_ATTEMPTS /\ ~rec.success

\* `while attempt < RETRY_ATTEMPTS and not success:` and the head of its body
WLoop(s) ==
    /\ w[s].pc = "loop"
    /\ IF LoopGoesOn(w[s])
       THEN /\ w' = [w EXCEPT ![s] = [@ EXCEPT !.pc = "makedirs", !.attempt = @ + 1,
                                               !.rsyncOK = FALSE, !.chmodOK = FALSE]]
            /\ logger' = LogAll(logger, << Info("banner", 0),
                                           Info("copy_attempt", w[s].attempt + 1),
                                           Info("banner", 0) >>)
       ELSE /\ w' = [w EXCEPT ![s] = [@ EXCEPT !.pc = "finalize"]]
            /\ UNCHANGED logger
    /\ UNCHANGED <<state, ui, scan_cache, srcTree, dstTree, dstCreated, afterQueue, sess>>

\* os.makedirs(dst, exist_ok=True) and the two audit lines after it
WMakedirs(s) ==
    /\ w[s].pc = "makedirs"
    /\ \E ok \in BOOLEAN :
        IF ok
        THEN /\ dstCreated' = TRUE
             /\ w' = [w EXCEPT ![s] = [@ EXCEPT !.pc = "popen", !.makedirs = @ + 1]]
             /\ logger' = LogAll(logger, << Info("destination_created", 0),
                                            Info("command", 0) >>)
        ELSE /\ w' = [w EXCEPT ![s] = Raise(@, "makedirs", 0)]
             /\ UNCHANGED <<dstCreated, logger>>
    /\ UNCHANGED <<state, ui, scan_cache, srcTree, dstTree, afterQueue, sess>>

\* subprocess.Popen(cmd, ...), proc.stdin.write(...), proc.stdin.close()
WPopen(s) ==
    /\ w[s].pc = "popen"
    /\ \E r \in {"ok", "popen_raises", "stdin_raises"} :
        w' = [w EXCEPT ![s] =
                CASE r = "ok" -> [@ EXCEPT !.pc = "stream", !.popens = @ + 1,
                                           !.lines = 0, !.terminated = FALSE]
                  [] r = "popen_raises" -> Raise(@, "popen", 0)
                  [] r = "stdin_raises" -> Raise([@ EXCEPT !.popens = @ + 1], "stdin", 0)]
    /\ UNCHANGED <<state, logger, ui, scan_cache, srcTree, dstTree, dstCreated, afterQueue, sess>>

\* one iteration of `for line in proc.stdout`: a line has arrived, then the
\* cancel_requested check, then terminate-and-break or the line's audit entry
WStreamLine(s) ==
    /\ w[s].pc = "stream"
    /\ w[s].lines < MaxLines
    /\ IF state.cancel_requested
       THEN /\ w' = [w EXCEPT ![s] = [@ EXCEPT !.pc = "wait", !.terminated = TRUE,
                                               !.lines = @ + 1, !.cancelSeen = TRUE]]
            /\ logger' = Log(logger, Entry("warning", "cancelled_by_user", 0, ""))
       ELSE /\ w' = [w EXCEPT ![s] = [@ EXCEPT !.lines = @ + 1]]
            /\ logger' = Log(logger, Info("rsync_line", w[s].lines + 1))
    /\ UNCHANGED <<state, ui, scan_cache, srcTree, dstTree, dstCreated, afterQueue, sess>>

\* proc.stdout reaches end of file: the loop ends
WStreamEOF(s) ==
    /\ w[s].pc = "stream"
    /\ w' = [w EXCEPT ![s] = [@ EXCEPT !.pc = "wait"]]
    /\ UNCHANGED <<state, logger, ui, scan_cache, srcTree, dstTree, dstCreated, afterQueue, sess>>

Mut_RsyncFailed(rc) == FALSE

\* `if proc.returncode != 0: raise RuntimeError(...)`
RsyncFailed(rc) == rc # 0

\* proc.wait() and the returncode test
WWait(s) ==
    /\ w[s].pc = "wait"
    /\ \E rc \in (IF w[s].terminated THEN ExitCodesTerminated ELSE ExitCodes) :
        IF RsyncFailed(rc)
        THEN /\ w' = [w EXCEPT ![s] = Raise(@, "rsync_exit", rc)]
             /\ UNCHANGED <<logger, dstTree>>
        ELSE /\ w' = [w EXCEPT ![s] = [@ EXCEPT !.pc = "chmod", !.rsyncOK = (rc = 0)]]
             /\ dstTree' = Transferred(srcTree)
             /\ logger' = LogAll(logger, << Info("rsync_complete", 0),
                                            Info("setting_permissions", 0) >>)
    /\ UNCHANGED <<state, ui, scan_cache, srcTree, dstCreated, afterQueue, sess>>

\* subprocess.run(["chmod", "-R", ...], check=True, timeout=60)
WChmod(s) ==
    /\ w[s].pc = "chmod"
    /\ \E ok \in BOOLEAN :
        IF ok
        THEN /\ w' = [w EXCEPT ![s] = [@ EXCEPT !.pc = "verify", !.chmodOK = TRUE]]
             /\ logger' = LogAll(logger, << Info("permissions_set", 0),
                                            Info("verifying", 0) >>)
        ELSE /\ w' = [w EXCEPT ![s] = Raise(@, "chmod", 0)]
             /\ UNCHANGED logger
    /\ UNCHANGED <<state, ui, scan_cache, srcTree, dstTree, dstCreated, afterQueue, sess>>

\* `for rel, expected_sz in scan_data['samples']` from sample i on; acc is
\* the logger so far, the verified count and whether getsize has raised
RECURSIVE VerifySamples(_, _, _, _)
VerifySamples(samples, outcomes, i, acc) ==
    IF i > Len(samples) \/ acc.raised THEN acc
    ELSE VerifySamples(samples, outcomes, i + 1,
           CASE outcomes[i] = "ok" -> [acc EXCEPT !.verified = @ + 1]
             [] outcomes[i] = "mismatch" ->
                  [acc EXCEPT !.lg = Log(@, Entry("warning", "size_mismatch", i, ""))]
             [] outcomes[i] = "missing" -> acc
             [] outcomes[i] = "error" -> [acc EXCEPT !.raised = TRUE])

\* the verification pass: the hidden count of the destination walk, the
\* sample probes, then success = True
WVerify(s) ==
    /\ w[s].pc = "verify"
    /\ LET samples == w[s].scan_data.samples
           lg1 == Log(logger, Info("hidden_in_dest", VerifyHiddenCount(dstTree)))
       IN \E outcomes \in [1..Len(samples) -> ProbeOutcomes] :
           LET r == VerifySamples(samples, outcomes, 1,
                                  [lg |-> lg1, verified |-> 0, raised |-> FALSE])
           IN IF r.raised
              THEN /\ w' = [w EXCEPT ![s] = Raise([@ EXCEPT !.verifies = @ + 1], "getsize", 0)]
                   /\ logger' = r.lg
              ELSE /\ w' = [w EXCEPT ![s] = [@ EXCEPT !.pc = "loop", !.success = TRUE,
                                                      !.verifies = @ + 1]]
                   /\ logger' = Log(r.lg, Info("samples_verified", r.verified))
    /\ UNCHANGED <<state, ui, scan_cache, srcTree, dstTree, dstCreated, afterQueue, sess>>

Mut_TracebackImported == TRUE

\* whether the name `traceback` is bound in the module: it is used at the
\* head of the except block and no import statement binds it
TracebackImported == FALSE

\* `except Exception as e:` - the audit line, then traceback.format_exc(),
\* whose NameError leaves the handler and the thread; with the name bound,
\* the rest of the handler: errors, and the retry delay when attempts remain
WExcept(s) ==
    /\ w[s].pc = "except"
    /\ LET lg1 == Log(logger, Entry("error", "attempt_failed", w[s].exc[2], w[s].exc[1]))
           failed == [w[s] EXCEPT !.fails = @ + 1,
                                  !.rsyncFails = IF w[s].exc[1] = "rsync_exit" THEN @ + 1 ELSE @]
       IN IF ~TracebackImported
          THEN /\ logger' = lg1
               /\ w' = [w EXCEPT ![s] = [failed EXCEPT !.pc = "crashed"]]
               /\ UNCHANGED state
          ELSE /\ state' = [state EXCEPT !.errors = Append(@, w[s].exc[1])]
               /\ IF w[s].attempt < RETRY_ATTEMPTS
                  THEN /\ logger' = LogAll(lg1, << Info("traceback", 0),
                                                   Info("retrying_in", RETRY_DELAY_SECONDS) >>)
                       /\ w' = [w EXCEPT ![s] = [failed EXCEPT !.pc = "loop", !.delays = @ + 1]]
                  ELSE /\ logger' = Log(lg1, Info("traceback", 0))
                       /\ w' = [w EXCEPT ![s] = [failed EXCEPT !.pc = "loop"]]
    /\ UNCHANGED <<ui, scan_cache, srcTree, dstTree, dstCreated, afterQueue, sess>>

\* self.state.set('copy_in_progress', False)
WFinalize(s) ==
    /\ w[s].pc = "finalize"
    /\ state' = [state EXCEPT !.copy_in_progress = FALSE]
    /\ w' = [w EXCEPT ![s] = [@ EXCEPT !.pc = "finalize2"]]
    /\ UNCHANGED <<logger, ui, scan_cache, srcTree, dstTree, dstCreated, afterQueue, sess>>

\* the thread slot once _run_copy has returned or raised at its last
\* statement: the locals are gone; the outcome it reported and the error of
\* its last failed attempt stay on record
Ended(rec, how) ==
    [IdleWorker EXCEPT !.pc = how, !.cancelInFlight = rec.cancelInFlight,
                       !.cancelSeen = rec.cancelSeen, !.exc = rec.exc,
                       !.outcome = IF rec.success THEN "completed" ELSE "failed"]

\* copy_completed or copy_failed, then root.after(0, _finish ...), which
\* raises in the thread once the root window is destroyed
WSchedule(s) ==
    /\ w[s].pc = "finalize2"
    /\ state' = IF w[s].success THEN [state EXCEPT !.copy_completed = TRUE]
                                ELSE [state EXCEPT !.copy_failed = TRUE]
    /\ IF ui.destroyed
       THEN /\ w' = [w EXCEPT ![s] = Ended(@, "crashed")]
            /\ UNCHANGED afterQueue
       ELSE /\ w' = [w EXCEPT ![s] = Ended(@, "done")]
            /\ afterQueue' = Append(afterQueue, w[s].success)
    /\ UNCHANGED <<logger, ui, scan_cache, srcTree, dstTree, dstCreated, sess>>

Worker(s) ==
    \/ WLoop(s) \/ WMakedirs(s) \/ WPopen(s) \/ WStreamLine(s) \/ WStreamEOF(s)
    \/ WWait(s) \/ WChmod(s) \/ WVerify(s) \/ WExcept(s) \/ WFinalize(s)
    \/ WSchedule(s)

UI ==
    \/ StartCopy \/ StartStages \/ ValidationDismiss \/ ConfirmAnswer \/ LowSpaceAnswer
    \/ CancelCopy \/ Finish \/ FinishDismiss

Close == OnClose \/ CloseAnswer \/ CloseTeardown

\* the executions in which the operator leaves the main window open
Next == UI \/ \E s \in Slots : Worker(s)

Spec == Init /\ [][Next]_vars

\* all executions, closing the window included
NextWithClose == Next \/ Close

SpecWithClose == Init /\ [][NextWithClose]_vars

----------------------------------------------------------------------------
(* Properties *)

Ended0 == {"none", "done", "crashed"}
Alive(s) == w[s].pc \notin Ended0
AliveWorkers == { s \in Slots : Alive(s) }

\* index of the first audit entry of the session with this message kind, 0
\* when there is none
FirstPos(tag) ==
    LET hits == { i \in 1..Len(logger.entries) : logger.entries[i][2] = tag }
    IN IF hits = {} THEN 0 ELSE CHOOSE i \in hits : \A j \in hits : i <= j

\* both kinds were logged, a before b
Before(a, b) == FirstPos(a) > 0 /\ FirstPos(a) < FirstPos(b)

Leaf(rel) == rel[Len(rel)]

\* C1: cancellation precedence - when _cancel_copy ran while a worker's
\* rsync subprocess was in flight, that worker never reports the session
\* Completed nor Failed.
C1_CancelPrecedence ==
    \A s \in Slots : w[s].cancelInFlight => w[s].outcome \notin {"completed", "failed"}

\* C2: once a worker has seen cancel_requested in the streaming loop and
\* terminated the subprocess, it takes no retry delay, invokes no further
\* subprocess and starts no further attempt.
C2_NoRetryAfterCancel ==
    [][\A s \in Slots :
          w[s].cancelSeen =>
             /\ w'[s].delays <= w[s].delays
             /\ w'[s].popens <= w[s].popens
             /\ w'[s].attempt <= w[s].attempt]_vars

\* C2 witness: a worker saw the cancellation, terminated rsync, got its
\* non-zero exit status and went through the except block
C2_Witness ==
    \E s \in Slots : w[s].cancelSeen /\ w[s].pc = "crashed" /\ w[s].exc = <<"rsync_exit", 20>>

\* the retry loop of a worker is over: it was left normally, or the thread
\* died inside an attempt
LoopLeft(s) == w[s].pc = "finalize" \/ (w[s].pc = "crashed" /\ w[s].attempt > 0)

\* C3: retry bound - with no cancellation and rsync's exit status the only
\* cause of failure, a run in which rsync failed k times ends Completed
\* after k+1 attempts when k < RETRY_ATTEMPTS and Failed after
\* RETRY_ATTEMPTS attempts otherwise.
C3_RetryBound ==
    \A s \in Slots :
        (LoopLeft(s) /\ ~state.cancel_requested /\ w[s].fails = w[s].rsyncFails) =>
            /\ w[s].pc = "finalize"
            /\ IF w[s].rsyncFails < RETRY_ATTEMPTS
               THEN w[s].success /\ w[s].attempt = w[s].rsyncFails + 1
               ELSE ~w[s].success /\ w[s].attempt = RETRY_ATTEMPTS

\* C4: session termination - with the window open, a worker thread that
\* has stopped running has set copy_in_progress back to False and has
\* scheduled _finish.
C4_WorkerFinalizes ==
    \A s \in Slots :
        (w[s].pc = "crashed" /\ ~ui.destroyed) =>
            (~state.copy_in_progress /\ w[s].outcome # "none")

\* C5: single active session - at most one worker thread is running
\* _run_copy, and while one runs no _finish of an earlier session is
\* still to come.
C5_SingleActiveSession ==
    /\ Cardinality(AliveWorkers) <= 1
    /\ AliveWorkers # {} => afterQueue = << >>

\* C5 witness: a worker of a later session is running (the log file was
\* closed by the _finish of an earlier one)
C5_Witness == AliveWorkers # {} /\ logger.log_file = "closed"

\* C6: phase ordering - the scan summary is logged before confirmation is
\* requested; confirmation and the pre-flight check are resolved before a
\* worker creates the destination or invokes rsync; the stages are logged in
\* the order validate, scan, confirm, pre-flight, launch, attempt; and a
\* worker verifies only when this attempt's rsync exited 0 and chmod
\* succeeded.
C6_PhaseOrdering ==
    /\ FirstPos("confirm_required") > 0 =>
          /\ Before("stage1_validation", "stage2_scan")
          /\ Before("scan_summary", "stage3_confirmation")
          /\ Before("stage3_confirmation", "confirm_required")
    /\ FirstPos("stage4_precopy") > 0 =>
          /\ Before("confirm_required", "stage4_precopy")
          /\ sess.confirm \in {"yes", "raised", "not_needed"}
    /\ \A s \in Slots :
          /\ (Alive(s) /\ (w[s].makedirs > 0 \/ w[s].popens > 0)) =>
                /\ sess.scanned
                /\ sess.confirm \in {"yes", "raised", "not_needed"}
                /\ sess.preflight \in {"ok", "override"}
                /\ Before("stage4_precopy", "stage5_launching")
                /\ Before("stage5_launching", "copy_attempt")
          /\ (Alive(s) /\ FirstPos("destination_created") > 0) =>
                Before("copy_attempt", "destination_created")
          /\ w[s].pc = "verify" => w[s].rsyncOK /\ w[s].chmodOK
          /\ w[s].verifies > 0 => Before("permissions_set", "verifying")

\* C6 witness: a worker is verifying in a session whose confirmation was
\* asked and answered yes and whose low-space warning was overridden
C6_Witness ==
    \E s \in Slots : w[s].pc = "verify" /\ sess.confirm = "yes" /\ sess.preflight = "override"

\* C7: confirmation gate - after the operator declined the prompt of a scan
\* above the threshold, the session is over as Cancelled: no worker was
\* launched or runs, the destination is as it was, no subprocess was
\* invoked and copy_in_progress is False.
C7_ConfirmationGate ==
    sess.confirm = "no" =>
        /\ NeedsConfirmation(scan_cache)
        /\ ~sess.launched
        /\ AliveWorkers = {}
        /\ \A s \in Slots : w[s].popens = 0 /\ w[s].makedirs = 0
        /\ dstCreated = sess.dstBefore
        /\ ~state.copy_in_progress
        /\ ui.status = "Cancelled"
        /\ ui.stack = << >>
        /\ logger.entries[Len(logger.entries)] = Info("cancelled_by_user", 0)

\* C7 witness: the operator has declined the prompt
C7_Witness == sess.confirm = "no" /\ sess.confirmAsked

\* the file count of a tree
RECURSIVE FilesInDirs(_)
FilesInDirs(dirs) ==
    IF dirs = << >> THEN 0 ELSE Len(Head(dirs).files) + FilesInDirs(Tail(dirs))
FileCount(tree) == Len(tree.files) + FilesInDirs(tree.subdirs)

\* C8: exclusion invariant - no name an exclusion pattern matches (exactly
\* or by its trailing wildcard) is listed in hidden_files or hidden_dirs or
\* taken as a sample, and the scan counts exactly the files the transfer
\* copies.
C8_ExclusionInvariant ==
    /\ \A i \in 1..Len(scan_cache.hidden_files) :
          ~RsyncExcludes(Leaf(scan_cache.hidden_files[i]))
    /\ \A i \in 1..Len(scan_cache.hidden_dirs) :
          ~RsyncExcludes(Leaf(scan_cache.hidden_dirs[i]))
    /\ \A i \in 1..Len(scan_cache.samples) :
          ~RsyncExcludes(Leaf(scan_cache.samples[i][1]))
    /\ scan_cache.files = FileCount(Transferred(srcTree))

\* the rules of _validate_paths an environment violates
RuleViolated(rule, e) ==
    CASE rule = "paths_empty" -> e.srcEmpty \/ e.dstEmpty
      [] rule = "not_absolute" -> ~e.srcAbs \/ ~e.dstAbs
      [] rule = "source_not_found" -> ~e.srcIsDir
      [] rule = "no_read_access" -> ~e.srcReadable
      [] rule = "dest_parent_invalid" -> ~e.parentIsDir
      [] rule = "no_write_access" -> e.dstExists /\ ~e.dstWritable

Rules == {"paths_empty", "not_absolute", "source_not_found", "no_read_access",
          "dest_parent_invalid", "no_write_access"}

ValidationDialogOpen(u) == u.stack # << >> /\ Top(u.stack) = "validation"

\* C9: validation failure - the step of _start_copy that finds a violated
\* rule opens one dialog that lists every violated rule, has logged each of
\* them as an error, logs no scan stage, and leaves the session state, the
\* scan cache, the worker threads and the destination unchanged.
C9_ValidationFailure ==
    [][(ValidationDialogOpen(ui') /\ ~ValidationDialogOpen(ui)) =>
          /\ \A r \in Rules : RuleViolated(r, sess'.env) <=> r \in Range(ui'.dialogBody)
          /\ ui'.dialogBody # << >>
          /\ \A r \in Range(ui'.dialogBody) :
                \E i \in 1..Len(logger'.entries) :
                    /\ logger'.entries[i][1] = "error"
                    /\ logger'.entries[i][4] = r
          /\ \A i \in 1..Len(logger'.entries) : logger'.entries[i][2] # "stage2_scan"
          /\ state' = state /\ w' = w /\ scan_cache' = scan_cache
          /\ dstCreated' = dstCreated /\ afterQueue' = afterQueue
          /\ Len(SelectSeq(ui'.stack, LAMBDA f : f \in Dialogs)) = 1]_vars

\* C9 witness: the validation dialog is open on a destination that exists
\* and is not writable, with a second rule violated as well
C9_Witness ==
    /\ ValidationDialogOpen(ui)
    /\ sess.env.dstExists /\ ~sess.env.dstWritable
    /\ Len(ui.dialogBody) >= 2

\* C10: verification never changes the outcome - once this attempt's rsync
\* has exited 0 and chmod has succeeded, the attempt does not reach the
\* except block and the thread does not die.
C10_VerifyNeverFails ==
    \A s \in Slots : (w[s].rsyncOK /\ w[s].chmodOK) => w[s].pc \notin {"except", "crashed"}

\* the audit entries the step appends to the session's log
Appended == SubSeq(logger'.entries, Len(logger.entries) + 1, Len(logger'.entries))

\* the seven lines of a failed CONFIRM dialog: the warning, the
\* announcement and the countdown 5, 4, 3, 2, 1
FailOpenLines ==
    << Entry("warning", "dialog_failed", 0, ""), Info("auto_proceeding", 5) >>
        \o [i \in 1..5 |-> Info("countdown", 6 - i)]

\* C11: confirmation fail-open - the step in which the CONFIRM dialog
\* raises logs the failure and the countdown 5..1, does not end the session
\* as Cancelled, and goes on to stage 4 as a yes does: the free-space check
\* runs next, and when it passes a worker is launched on the scanned
\* inventory with copy_in_progress set.
C11_ConfirmFailOpen ==
    [][(sess'.confirm = "raised" /\ sess.confirm # "raised") =>
          /\ Len(Appended) >= Len(FailOpenLines) + 1
          /\ SubSeq(Appended, 1, Len(FailOpenLines)) = FailOpenLines
          /\ Appended[Len(FailOpenLines) + 1] = Info("stage4_precopy", 0)
          /\ \A i \in 1..Len(Appended) : Appended[i][2] # "cancelled_by_user"
          /\ ui'.status # "Cancelled"
          /\ sess'.preflight \in {"ok", "asked"}
          /\ sess'.preflight = "asked" => Top(ui'.stack) = "lowspace"
          /\ sess'.preflight = "ok" =>
                /\ sess'.launched /\ state'.copy_in_progress
                /\ \E s \in Slots : /\ w'[s] = NewWorker(scan_cache)
                                    /\ w[s] # w'[s]]_vars

\* C11 witness: rsync was started in a session whose CONFIRM dialog raised
C11_Witness ==
    sess.confirm = "raised" /\ \E s \in Slots : w[s].popens > 0 /\ Alive(s)

\* C12: permission-normalization failure - the except block entered for a
\* failed chmod counts the attempt as failed with no verification run for
\* it and, when attempts remain and no cancellation was requested, takes the
\* retry delay and returns to the loop for another attempt.
C12_ChmodFailureRetried ==
    [][\A s \in Slots :
          (w[s].pc = "except" /\ w[s].exc[1] = "chmod" /\ w'[s] # w[s]) =>
             /\ w[s].rsyncOK /\ ~w[s].chmodOK
             /\ w'[s].fails = w[s].fails + 1
             /\ w'[s].verifies = w[s].verifies
             /\ (w[s].attempt < RETRY_ATTEMPTS /\ ~state.cancel_requested) =>
                   /\ w'[s].delays = w[s].delays + 1
                   /\ w'[s].pc = "loop"]_vars

\* C13: session state reset - the reset of _finish leaves every field of the
\* shared state at its initial value, and every launch of a worker finds
\* the state as the first launch found it, cancel_requested False and
\* errors empty in particular.
C13_StateReset ==
    [][/\ Len(afterQueue') < Len(afterQueue) => state' = InitialState
       /\ (sess'.launched /\ ~sess.launched) =>
             /\ state = InitialState
             /\ ~state.cancel_requested
             /\ state.errors = << >>]_vars

\* the part of C13 that the program keeps: every launch finds the flags
\* False, the counters 0 and the lists empty
LaunchFindsCleanFlags ==
    [][(sess'.launched /\ ~sess.launched) =>
          [state EXCEPT !.current_phase = "idle"] = InitialState]_vars

\* a step of worker thread s: its record changes and no widget does
WorkerStep(s) == Alive(s) /\ w'[s] # w[s] /\ ui' = ui

\* the scan runs in this step: a new inventory is stored
ScanRuns == sess'.scanned /\ ~sess.scanned

\* C14: the scan, the streaming loop and the verification walk are steps of
\* a worker thread, never of a handler on the UI thread, and while a worker
\* streams or verifies the idle main window offers CANCEL.
C14_OffUIThread ==
    [][/\ ScanRuns => \E s \in Slots : WorkerStep(s)
       /\ \A s \in Slots :
             (w'[s].lines > w[s].lines \/ w'[s].verifies > w[s].verifies) => WorkerStep(s)
       /\ \A s \in Slots :
             (w[s].pc \in {"stream", "verify"} /\ MainWindowIdle) => ui.btn_cancel]_vars

\* the audit log holds an entry of level error with this detail
ErrorLogged(detail) ==
    \E i \in 1..Len(logger.entries) :
        logger.entries[i][1] = "error" /\ logger.entries[i][4] = detail

\* the audit log holds an entry of level error of this message kind
ErrorKindLogged(tag) ==
    \E i \in 1..Len(logger.entries) :
        logger.entries[i][1] = "error" /\ logger.entries[i][2] = tag

\* C15: log before dialog - while an error or failure dialog is open
\* (VALIDATION FAILED, LOW SPACE, FAILED) the audit log already holds the
\* error entry it reports: every listed validation error, the low-space
\* message, the COPY FAILED line.
C15_LogBeforeDialog ==
    \A k \in 1..Len(ui.stack) :
        /\ ui.stack[k] = "validation" =>
              /\ ui.dialogBody # << >>
              /\ \A j \in 1..Len(ui.dialogBody) : ErrorLogged(ui.dialogBody[j])
        /\ ui.stack[k] = "lowspace" => ErrorKindLogged("low_space")
        /\ ui.stack[k] = "finish_fail" => ErrorKindLogged("copy_failed")

\* C15 witness: the LOW SPACE dialog is open after a confirmed scan
C15_Witness ==
    /\ ui.stack # << >> /\ Top(ui.stack) = "lowspace"
    /\ sess.confirm = "yes"
    /\ ErrorKindLogged("low_space")

\* the frame on top of the handler stack of u is f
TopIs(u, f) == IF u.stack = << >> THEN FALSE ELSE Top(u.stack) = f

\* C16: close during transfer - the "In Progress" question is asked exactly
\* when the window is closed with copy_in_progress True; a no leaves the
\* window open and the state and the log as they were; a yes sets
\* cancel_requested and does not destroy the window yet; the window is
\* destroyed only from the idle main loop with no copy in progress, where
\* the state (cancel_requested included) is left unchanged, or after the
\* sleep that follows a yes, with cancel_requested set; and after that sleep
\* the teardown can always proceed.
C16_CloseDuringTransfer ==
    [][/\ (ui'.destroyed /\ ~ui.destroyed) =>
             IF ui.stack = << >>
             THEN ~state.copy_in_progress /\ state' = state
             ELSE TopIs(ui, "close_sleep") /\ state.cancel_requested /\ state' = state
       /\ (TopIs(ui', "close") /\ Len(ui'.stack) > Len(ui.stack)) =>
             state.copy_in_progress /\ state' = state /\ ~ui'.destroyed
       /\ (TopIs(ui, "close") /\ Len(ui'.stack) < Len(ui.stack)) =>
             state' = state /\ logger' = logger /\ w' = w /\ ~ui'.destroyed
       /\ (TopIs(ui, "close") /\ TopIs(ui', "close_sleep")) =>
             state'.cancel_requested /\ ~ui'.destroyed
       /\ TopIs(ui, "close_sleep") => ENABLED CloseTeardown]_vars

\* C16 witness: the window was destroyed after a yes while the worker
\* thread was still running its attempt
C16_Witness ==
    /\ ui.destroyed /\ state.cancel_requested /\ state.copy_in_progress
    /\ \E s \in Slots : w[s].pc \in {"stream", "wait", "chmod", "verify"}

----------------------------------------------------------------------------
(* The scan alone: _scan_source applied to one source tree after another   *)

Digits == <<"0", "1", "2", "3", "4", "5", "6", "7", "8", "9">>

\* the file name f00 .. f99
FName(i) == <<"f", Digits[(i \div 10) + 1], Digits[(i % 10) + 1]>>

N_nfs02 == <<".", "n", "f", "s", "0", "2">>
N_REPORT_TXT == <<"R", "E", "P", "O", "R", "T", ".", "T", "X", "T">>

\* eleven files above the sample size
PoolLarge == [i \in 1..11 |-> File(FName(i), 2000 + i)]

\* files at and around the sample size, one whose size cannot be read, one
\* excluded by name and one only a wildcard pattern excludes, then large ones
PoolMixed ==
    << File(FName(1), 2000), File(FName(2), 1024), NoStat(FName(3)),
       File(N_Thumbs_db, 5000), File(FName(4), 1025), File(N_nfs02, 5000) >>
        \o [i \in 1..3 |-> File(FName(10 + i), 3000 + i)]

\* names that differ only by case, and one that has no such sibling
PoolCase ==
    << File(N_Report_txt, 2000), File(N_a_txt, 10), File(N_report_txt, 3000),
       File(N_REPORT_TXT, 10) >>

\* files whose size cannot be read: a hidden one, one whose name differs
\* from a sibling's by case, one excluded by name, a plain one; then a
\* readable large file
PoolStat ==
    << NoStat(N_hidden), File(N_Report_txt, 2000), NoStat(N_report_txt),
       NoStat(N_Thumbs_db), NoStat(N_x_dat), File(N_big_bin, 5000) >>

Pools == { PoolLarge, PoolMixed, PoolCase, PoolStat }

\* what the source tree holds below its root
SubdirChoices ==
    { << >>,
      << Dir(N_sub, << File(N_report_txt, 3000) >>) >>,
      << Dir(N_sub, << File(N_a_txt, 2000), File(N_b_txt, 3000) >>) >>,
      << Dir(N_eaDir, << File(FName(30), 5000) >>),
         Dir(N_sub, << File(N_Report_txt, 10), File(N_report_txt, 20) >>) >>,
      << Dir(N_git, << File(N_a_txt, 4000) >>), Dir(N_sub, << File(N_a_txt, 10) >>) >> }

\* every prefix of a pool as the root's files, over every choice of subdirectories
ScanTrees ==
    UNION { { Tree(SubSeq(p, 1, n), ds) : n \in 0..Len(p), ds \in SubdirChoices } : p \in Pools }

\* self.scan_cache = self._scan_source(src) on one of the trees
ScanOnce ==
    /\ \E tree \in ScanTrees :
          /\ srcTree' = tree
          /\ scan_cache' = ScanSource(tree)
    /\ UNCHANGED <<state, logger, ui, dstTree, dstCreated, afterQueue, w, sess>>

ScanNext == ScanOnce
ScanSpec == Init /\ [][ScanNext]_vars

\* the files of a directory as (relative path, file) pairs
Listed(dirpath, files) == [i \in 1..Len(files) |-> <<Rel(dirpath, files[i].name), files[i]>>]

RECURSIVE ListedInDirs(_)
ListedInDirs(dirs) ==
    IF dirs = << >> THEN << >>
    ELSE Listed(<<Head(dirs).name>>, Head(dirs).files) \o ListedInDirs(Tail(dirs))

\* whether the name counts as excluded: by exact name or trailing wildcard
\* (the policy), or by membership in EXCLUSION_SET (the scan's test)
Excluded(policy, name) == IF policy THEN RsyncExcludes(name) ELSE InExclusionSet(name)

\* the files of the tree in walk order, the excluded directories left out
WalkOrder(tree, policy) ==
    Listed(<< >>, tree.files)
        \o ListedInDirs(SelectSeq(tree.subdirs, LAMBDA d : ~Excluded(policy, d.name)))

\* the first SampleCap files of the walk that are not excluded, whose size
\* can be read and is above SampleMinBytes, each with its size
ExpectedSamples(tree, policy) ==
    LET ok == SelectSeq(WalkOrder(tree, policy),
                        LAMBDA p : /\ ~Excluded(policy, p[2].name)
                                   /\ p[2].stat /\ p[2].size > SampleMinBytes)
        n == IF Len(ok) < SampleCap THEN Len(ok) ELSE SampleCap
    IN [i \in 1..n |-> <<ok[i][1], ok[i][2].size>>]

\* the sample list is as specified under this reading of "excluded"
SamplesAsSpecified(policy) ==
    /\ Len(scan_cache.samples) <= SampleCap
    /\ \A i \in 1..Len(scan_cache.samples) :
          /\ scan_cache.samples[i][2] > SampleMinBytes
          /\ ~Excluded(policy, Leaf(scan_cache.samples[i][1]))
    /\ scan_cache.samples = ExpectedSamples(srcTree, policy)

\* C17: verification sample bound - the sample list holds at most 10
\* entries, each a file no exclusion pattern matches with a recorded size
\* above 1024, and it is the first 10 such files of the walk (all of them
\* when there are fewer); the trees include every prefix of each walk.
C17_SampleBound == SamplesAsSpecified(TRUE)

\* C17 with exclusion read as membership in EXCLUSION_SET, as the scan reads it
SampleBoundExactNames == SamplesAsSpecified(FALSE)

\* C17 witness: the sample list is full and a further large file was passed over
C17_Witness ==
    /\ Len(scan_cache.samples) = SampleCap
    /\ Len(SelectSeq(srcTree.files, LAMBDA f : f.stat /\ f.size > SampleMinBytes)) > SampleCap

\* the case-folded names that at least two distinct names of one list share
SiblingKeys(files) ==
    { Lower(files[i].name) : i \in { j \in 1..Len(files) :
          /\ ~RsyncExcludes(files[j].name)
          /\ \E k \in 1..Len(files) :
                /\ ~RsyncExcludes(files[k].name)
                /\ files[k].name # files[j].name
                /\ Lower(files[k].name) = Lower(files[j].name) } }

\* the keys under which some directory of the tree holds colliding siblings
CollisionKeys(tree) ==
    SiblingKeys(tree.files)
        \cup UNION { SiblingKeys(tree.subdirs[i].files) :
                        i \in { j \in 1..Len(tree.subdirs) : ~RsyncExcludes(tree.subdirs[j].name) } }

\* C18: case-collision detection - the keys of the scan's collision map are
\* exactly the case-folded names shared by at least two distinctly named,
\* non-excluded files of one directory.
C18_SiblingCollisions ==
    { scan_cache.conflicts[i][1] : i \in 1..Len(scan_cache.conflicts) } = CollisionKeys(srcTree)

\* the COPY FAILED lines of the session's audit log, one per failure dialog
FailureReports ==
    SelectSeq(logger.entries, LAMBDA e : e[1] = "error" /\ e[2] = "copy_failed")

\* the thread of slot s is over and its last attempt failed
EndedInFailure(s) ==
    w[s].pc \in {"done", "crashed"} /\ w[s].outcome # "completed" /\ w[s].exc[1] # ""

\* C19: exhausted-retry reporting - once the worker thread is over with its
\* attempts failed and the window open, the failure report is scheduled or
\* has been made exactly once, and it carries the error detail of the last
\* failed attempt.
C19_ExhaustedRetryDialog ==
    \A s \in Slots :
        (EndedInFailure(s) /\ sess.launched /\ ~ui.destroyed) =>
            \/ afterQueue # << >>
            \/ /\ Len(FailureReports) = 1
               /\ FailureReports[1][4] = w[s].exc[1]
               /\ (TopIs(ui, "finish_fail") => ui.dialogBody = << w[s].exc[1] >>)

\* the entries of this message kind among es
CountKind(es, tag) == Len(SelectSeq(es, LAMBDA e : e[2] = tag))

\* C20: sample verification completeness - the step in which a worker
\* completes its verification pass appends one "Size mismatch" entry for
\* every sample that is missing or of another size: the count it reports as
\* verified plus the mismatch entries equals the number of samples.
C20_SampleVerificationComplete ==
    [][\A s \in Slots :
          (w[s].pc = "verify" /\ w'[s].pc = "loop") =>
             /\ Appended # << >>
             /\ Appended[Len(Appended)][2] = "samples_verified"
             /\ Appended[Len(Appended)][3] + CountKind(Appended, "size_mismatch")
                   = Len(w[s].scan_data.samples)]_vars

----------------------------------------------------------------------------
(* Properties of the audit trail, the streaming loop and the retry loop *)

\* the log holds the lines of a session: its first line is the STAGE 1 line
SessionLogged ==
    logger.entries # << >> /\ logger.entries[1] = Info("stage1_validation", 0)

\* C21: persistent audit trail per session - when the log file could be
\* opened, every audit entry of a session, the first or a later one, is in
\* the file as it is in the in-memory sequence.
C21_PersistentAuditTrail ==
    (SessionLogged /\ logger.log_file # "none") => logger.file = logger.entries

\* C21 for the sessions that start before any _finish has closed the file
FirstSessionPersisted ==
    (SessionLogged /\ logger.log_file = "open") => logger.file = logger.entries

\* the worker in slot s is in the streaming loop and cancel_requested is set
CancelPendingInStream(s) == w[s].pc = "stream" /\ state.cancel_requested

\* C22: cooperative cancellation while streaming - with cancel_requested set,
\* the step in which the streaming worker requests termination of the
\* subprocess consumes no further output line of it, and logs none.
C22_CooperativeCancel ==
    [][\A s \in Slots :
          (CancelPendingInStream(s) /\ WorkerStep(s) /\ w'[s].terminated)
              => /\ w'[s].lines = w[s].lines
                 /\ \A i \in 1..Len(Appended) : Appended[i][2] # "rsync_line"]_vars

\* the part of C22 on the log alone: no step of a streaming worker taken with
\* cancel_requested set appends an output line
NoLineLoggedAfterCancel ==
    [][\A s \in Slots :
          (CancelPendingInStream(s) /\ WorkerStep(s))
              => \A i \in 1..Len(Appended) : Appended[i][2] # "rsync_line"]_vars

\* a worker left the streaming loop with cancel_requested set before the
\* loop ended, and never looked at the flag
StreamLeftUnseen ==
    \E s \in Slots : /\ w[s].pc = "wait" /\ w[s].cancelInFlight
                     /\ ~w[s].cancelSeen /\ ~w[s].terminated

----------------------------------------------------------------------------
(* Size errors in the scan, ScanSpec *)

\* the files of the walk the scan does not skip, as (relative path, file)
Scanned(tree) ==
    SelectSeq(WalkOrder(tree, FALSE), LAMBDA p : ~InExclusionSet(p[2].name))

\* those whose size could be read / could not be read
Summed(tree) == SelectSeq(Scanned(tree), LAMBDA p : p[2].stat)
Unreadable(tree) == SelectSeq(Scanned(tree), LAMBDA p : ~p[2].stat)

RECURSIVE SumSizes(_)
SumSizes(ps) == IF ps = << >> THEN 0 ELSE Head(ps)[2].size + SumSizes(Tail(ps))

\* C23: stat-failure tolerance in scan - a non-excluded file whose size
\* cannot be read does not stop the scan: it is counted, it is listed as
\* hidden when its name starts with a dot, it takes part in the case
\* collisions, it adds nothing to the total size, it is no sample, and it
\* has exactly one scan error; the file count is the number of files whose
\* size was summed plus the number of recorded errors.
C23_StatFailureTolerance ==
    LET all == Scanned(srcTree)
        bad == Unreadable(srcTree)
    IN /\ scan_cache.files = Len(all)
       /\ scan_cache.size = SumSizes(Summed(srcTree))
       /\ scan_cache.errors = [i \in 1..Len(bad) |-> bad[i][1]]
       /\ scan_cache.files = Len(Summed(srcTree)) + Len(scan_cache.errors)
       /\ \A i \in 1..Len(bad) :
             /\ \A j \in 1..Len(scan_cache.samples) : scan_cache.samples[j][1] # bad[i][1]
             /\ IsDotName(bad[i][2].name) => bad[i][1] \in Range(scan_cache.hidden_files)
             /\ (\E k \in 1..Len(all) : /\ all[k][2].name # bad[i][2].name
                                        /\ Lower(all[k][2].name) = Lower(bad[i][2].name))
                   => \E c \in 1..Len(scan_cache.conflicts) :
                         scan_cache.conflicts[c] = <<Lower(bad[i][2].name), bad[i][2].name>>

\* C23 witness: a scan met unreadable files, one of them hidden and one
\* colliding by case, and went on to sum a file behind them
C23_Witness ==
    LET bad == Unreadable(srcTree)
    IN /\ Len(scan_cache.errors) >= 3
       /\ \E i \in 1..Len(bad) : IsDotName(bad[i][2].name)
       /\ \E i \in 1..Len(bad) : Lower(bad[i][2].name) \in ConflictKeys(scan_cache.conflicts)
       /\ \E i \in 1..Len(srcTree.files) : \E j \in 1..Len(srcTree.files) :
             /\ i < j /\ ~srcTree.files[i].stat /\ ~InExclusionSet(srcTree.files[i].name)
             /\ srcTree.files[j].stat /\ ~InExclusionSet(srcTree.files[j].name)
       /\ scan_cache.size > 0

----------------------------------------------------------------------------
(* The retry delay *)

\* the positions of a worker inside an attempt or behind the loop
InAttempt(rec) ==
    rec.pc \in {"makedirs", "popen", "stream", "wait", "chmod", "verify", "except"}
BehindLoop(rec) ==
    rec.pc \in {"finalize", "finalize2"} \/ (rec.pc = "crashed" /\ rec.attempt > 0)

\* attempts, subprocess invocations and delays of one worker agree
DelaysPlaced(rec) ==
    /\ rec.popens <= rec.attempt /\ rec.attempt <= RETRY_ATTEMPTS
    /\ (InAttempt(rec) \/ BehindLoop(rec)) => rec.delays = rec.attempt - 1
    /\ rec.pc = "loop" =>
          \/ rec.delays = rec.attempt /\ LoopGoesOn(rec)
          \/ /\ rec.attempt > 0 /\ rec.delays = rec.attempt - 1
             /\ (rec.success \/ rec.attempt = RETRY_ATTEMPTS)

\* C24: retry delay placement - rsync is invoked at most RETRY_ATTEMPTS
\* times in a run of the worker; a delay is taken only in the handler of a
\* failed attempt that another attempt follows, never after a successful
\* attempt nor after the last failed one; a run of n attempts takes n-1
\* delays.
C24_RetryDelayPlacement ==
    [][\A s \in Slots :
          /\ DelaysPlaced(w'[s])
          /\ w'[s].delays > w[s].delays =>
                /\ w[s].pc = "except" /\ w'[s].delays = w[s].delays + 1
                /\ ~w[s].success /\ w[s].attempt < RETRY_ATTEMPTS
                /\ w'[s].pc = "loop" /\ LoopGoesOn(w'[s])]_vars

\* C24 witness: a run of the worker is over after a failed attempt
C24_Witness ==
    \E s \in Slots : BehindLoop(w[s]) /\ w[s].fails > 0 /\ w[s].popens > 0

\* a run of the worker took a retry delay
DelayTaken == \E s \in Slots : w[s].delays > 0

====
